---------------------------- MODULE Spec2Model ----------------------------
(***************************************************************************)
(* A model of termvid (src/main.py): a video is decoded frame by frame,    *)
(* every frame is resized to the terminal, printed as coloured glyphs at   *)
(* the cadence of a wall clock while an audio player runs in a daemon      *)
(* thread, and the render is optionally re-encoded into a video file.      *)
(*                                                                         *)
(* Time is counted in ticks; one second is TicksPerSec ticks, and the      *)
(* finite frame rates of the model divide TicksPerSec, so 1 / fps is a     *)
(* whole number of ticks.  A frame is abstracted to "readable or not" and  *)
(* a rendered grid to its dimensions.  External programs (ffmpeg, ffplay)  *)
(* are inputs: each call ends "ok", "fail" (the program ran and exited     *)
(* with an error, which subprocess.run / subprocess.call without check=    *)
(* do not raise) or "raise" (the program could not be executed: OSError).  *)
(***************************************************************************)
EXTENDS Integers, Sequences, FiniteSets, TLC

\* ------------------------------------------------------------- bounds
MaxFrames == 3
MaxProc == 2
MaxOversleep == 1
MaxLines == 4
MaxSrc == 2
MaxAnswerLen == 2

\* ------------------------------------------------- program constants
DefaultFps == 30
FallbackColumns == 80
Margin == 2
BrightnessLevels == 256
MaxBrightness == 255

TicksPerSec == 2 * DefaultFps

ascii_chars == <<" ", ".", ":", "-", "=", "+", "*", "#", "%", "@">>

TEMP_AUDIO == "temp_audio.aac"
TEMP_AUDIO_OUTPUT == "temp_audio_output.aac"
TEMP_FRAMES_DIR == "tempframes"
OUTPUT_FILE == "terminal+video"

\* ------------------------------------------------------------ inputs
Outcomes == {"ok", "fail", "raise"}
\* A frame rate as cap.get returns it: a double, which is a number (here one
\* that divides TicksPerSec, or one <= 0), an infinity (v is its sign) or NaN.
Num(n) == [kind |-> "num", v |-> n]
FpsValues == {Num(-DefaultFps), Num(0), Num(DefaultFps), Num(2 * DefaultFps),
              [kind |-> "inf", v |-> 1], [kind |-> "inf", v |-> -1],
              [kind |-> "nan", v |-> 0]}
\* What shutil.get_terminal_size reports when it is called, here the fallback
\* width and at least one line. The user may resize the terminal at any time,
\* so two calls may report any two sizes.
TermSizes == [columns : {FallbackColumns}, lines : 1..MaxLines]
SrcSizes == [w : 1..MaxSrc, h : 1..MaxSrc]
AnswerChars == {"y", "Y", "n", " "}
Answers == UNION {[1..n -> AnswerChars] : n \in 0..MaxAnswerLen}
\* A stream of up to MaxFrames frames, at most one of which cannot be read
\* (both loops stop at the first such frame, so a second one is never seen).
FrameStreams ==
    UNION {{[k \in 1..n |-> k # bad] : bad \in 0..n} : n \in 0..MaxFrames}

VARIABLES
    pc, crashAt,
    frameOk, fpsReported, use_ascii,
    fs, audio,
    fps, frame_time, frame_count, term_width, term_height,
    i, now, startCaptures, presented, lastShow,
    rawAnswer, sv, canvases, encoder,
    brightness, glyph

envVars == <<frameOk, fpsReported, use_ascii>>
playVars == <<fps, frame_time, frame_count, term_width, term_height,
              i, now, startCaptures, presented, lastShow>>
saveVars == <<rawAnswer, sv, canvases, encoder>>
glyphVars == <<brightness, glyph>>
vars == <<pc, crashAt, envVars, fs, audio, playVars, saveVars, glyphVars>>

Max(a, b) == IF a >= b THEN a ELSE b

\* ------------------------------------------------------ pure functions

\* get_terminal_resolution: max(1, size.columns), max(1, size.lines)
get_terminal_resolution(size) ==
    [width |-> Max(1, size.columns), height |-> Max(1, size.lines)]

\* cv2.resize(frame, (w, h)): an error for an empty destination size, else an
\* image of exactly w columns and h rows whatever the size of the source.
cv2_resize(src, w, h) ==
    IF w <= 0 \/ h <= 0 \/ src.w <= 0 \/ src.h <= 0
    THEN [ok |-> FALSE, cols |-> 0, rows |-> 0]
    ELSE [ok |-> TRUE, cols |-> w, rows |-> h]

\* The grid frame_to_ascii_colored prints: gray.shape[0] rows of gray.shape[1] cells.
frame_to_ascii_colored(src, tw, th) == cv2_resize(src, tw, th - Margin)

\* The grid frame_to_colored_blocks prints: frame.shape[0] rows of frame.shape[1] cells.
frame_to_colored_blocks(src, tw, th) == cv2_resize(src, tw, th - Margin)

Render(ascii, src, tw, th) ==
    IF ascii THEN frame_to_ascii_colored(src, tw, th)
    ELSE frame_to_colored_blocks(src, tw, th)

\* fps <= 0 on a double: false for NaN and for +inf, true for -inf.
LeqZero(f) ==
    CASE f.kind = "num" -> f.v <= 0
      [] f.kind = "inf" -> f.v < 0
      [] OTHER -> FALSE

\* np.isnan(fps)
IsNan(f) == f.kind = "nan"

\* if fps <= 0 or np.isnan(fps): fps = 30
EffectiveFps(f) == IF LeqZero(f) \/ IsNan(f) THEN Num(DefaultFps) ELSE f

\* frame_time = 1 / fps, in ticks; 1 / inf is 0.0
FrameTime(f) == IF f.kind = "inf" THEN 0 ELSE TicksPerSec \div f.v

\* A schedule that aims each frame at the slot of the one before it.
Delay_previousSlot(idx, ft, elapsed) == (idx - 1) * ft - elapsed

\* delay = target_time - now, with target_time = i * frame_time
Delay(idx, ft, elapsed) == idx * ft - elapsed

\* if delay > 0: time.sleep(delay)
SleepFor(delay) == IF delay > 0 THEN delay ELSE 0

\* The index scaled by the largest brightness instead of the number of levels.
GlyphIndex_by255(b) == (b * Len(ascii_chars)) \div MaxBrightness

\* ascii_chars[int(brightness / 256 * len(ascii_chars))]: the product is exact
\* in a double (brightness * 10 / 2^8), and int() of a value >= 0 is the floor.
GlyphIndex(b) == (b * Len(ascii_chars)) \div BrightnessLevels

\* str.strip(): leading and trailing whitespace removed
RECURSIVE LStrip(_)
LStrip(s) == IF s # <<>> /\ Head(s) = " " THEN LStrip(Tail(s)) ELSE s
RECURSIVE RStrip(_)
RStrip(s) ==
    IF s # <<>> /\ s[Len(s)] = " " THEN RStrip(SubSeq(s, 1, Len(s) - 1)) ELSE s
Strip(s) == RStrip(LStrip(s))

\* str.lower()
Lower(s) == [k \in 1..Len(s) |-> IF s[k] = "Y" THEN "y" ELSE s[k]]

\* A prompt that takes only "n" for a refusal.
Declines_onlyN(choice) == choice = <<"n">>

\* choice != "y"
Declines(choice) == choice # <<"y">>

\* -------------------------------------------------------------- state

NoShow == [index |-> -1, checked |-> 0, slept |-> 0, at |-> 0]
NoSave == [width |-> 0, height |-> 0, fps |-> Num(0), frame_count |-> 0,
           n |-> 0, opens |-> 0, writes |-> 0, images |-> 0]
NoEncoder == [calls |-> 0, rate |-> Num(0)]
NoGlyph == [state |-> "none", index |-> 0, char |-> ""]

\* The process before its first statement: nothing sampled, no temporary file.
Idle ==
    /\ crashAt = "none"
    /\ fs = {}
    /\ audio = "none"
    /\ fps = Num(0) /\ frame_time = 0 /\ frame_count = 0
    /\ term_width = 0 /\ term_height = 0
    /\ i = 0 /\ now = 0 /\ startCaptures = 0
    /\ presented = <<>> /\ lastShow = NoShow
    /\ rawAnswer = <<>> /\ sv = NoSave /\ canvases = <<>> /\ encoder = NoEncoder

Init ==
    /\ pc = "main"
    /\ Idle
    /\ frameOk \in FrameStreams
    /\ fpsReported \in FpsValues
    /\ use_ascii \in BOOLEAN
    /\ brightness = 0 /\ glyph = NoGlyph

Crash(at) == pc' = "crashed" /\ crashAt' = at

\* ------------------------------------------------------------ __main__

\* if not os.path.isfile(args.file): print, sys.exit(1)
MainCheck ==
    /\ pc = "main"
    /\ \E exists \in BOOLEAN : pc' = IF exists THEN "pv_start" ELSE "exit1"
    /\ UNCHANGED <<crashAt, envVars, fs, audio, playVars, saveVars, glyphVars>>

\* ---------------------------------------------------------- play_video

\* Lines 62-74: the decoder is opened, the schedule derived, the terminal size
\* sampled, the audio extracted, start_time captured and the audio thread started.
PlayStart ==
    /\ pc = "pv_start"
    /\ fps' = EffectiveFps(fpsReported)
    /\ frame_time' = FrameTime(fps')
    /\ frame_count' = Len(frameOk)
    /\ \E terminal \in TermSizes :
         /\ term_width' = get_terminal_resolution(terminal).width
         /\ term_height' = get_terminal_resolution(terminal).height
    /\ \E out \in Outcomes :
         IF out = "raise"
         THEN /\ Crash("pv_extract_audio")
              /\ UNCHANGED <<fs, audio, now, startCaptures>>
         ELSE /\ fs' = IF out = "ok" THEN fs \cup {TEMP_AUDIO} ELSE fs
              /\ now' = 0
              /\ startCaptures' = startCaptures + 1
              /\ audio' = "running"
              /\ pc' = IF frame_count' = 0 THEN "pv_end" ELSE "pv_loop"
              /\ UNCHANGED crashAt
    /\ UNCHANGED <<envVars, i, presented, lastShow, saveVars, glyphVars>>

\* Lines 77-79: cap.read() reports no frame; the loop is left.
PlayReadFail ==
    /\ pc = "pv_loop"
    /\ ~frameOk[i + 1]
    /\ pc' = "pv_end"
    /\ UNCHANGED <<crashAt, envVars, fs, audio, playVars, saveVars, glyphVars>>

\* Lines 77-92, one iteration: the frame is read, the clock consulted, the
\* thread sleeps for the delay when it is positive, the frame is printed.
PlayPresent ==
    /\ pc = "pv_loop"
    /\ frameOk[i + 1]
    /\ \E p \in 0..MaxProc, o \in 0..MaxOversleep,
          grid \in {Render(use_ascii, src, term_width, term_height) : src \in SrcSizes} :
         LET checked == now + p
             delay == Delay(i, frame_time, checked)
             slept == SleepFor(delay)
             at == checked + (IF slept > 0 THEN slept + o ELSE 0)
         IN /\ grid.ok
            /\ now' = at
            /\ lastShow' = [index |-> i, checked |-> checked, slept |-> slept, at |-> at]
            /\ presented' = Append(presented,
                                   [index |-> i, cols |-> grid.cols, rows |-> grid.rows])
    /\ i' = i + 1
    /\ pc' = IF i + 1 = frame_count THEN "pv_end" ELSE "pv_loop"
    /\ UNCHANGED <<crashAt, envVars, fs, audio, fps, frame_time, frame_count,
                   term_width, term_height, startCaptures, saveVars, glyphVars>>

\* Lines 89-91: cv2.resize raises; nothing catches it.
PlayRenderRaise ==
    /\ pc = "pv_loop"
    /\ frameOk[i + 1]
    /\ \E src \in SrcSizes : ~Render(use_ascii, src, term_width, term_height).ok
    /\ Crash("pv_render")
    /\ UNCHANGED <<envVars, fs, audio, playVars, saveVars, glyphVars>>

\* Lines 94-96: cap.release(); os.remove(audio_path), which raises
\* FileNotFoundError when the file is not there; return, which ends the life
\* of the function's locals (what the terminal was shown stays shown).
PlayEnd ==
    /\ pc = "pv_end"
    /\ IF TEMP_AUDIO \in fs
       THEN /\ fs' = fs \ {TEMP_AUDIO}
            /\ pc' = "prompt"
            /\ fps' = Num(0) /\ frame_time' = 0 /\ frame_count' = 0
            /\ term_width' = 0 /\ term_height' = 0
            /\ i' = 0 /\ now' = 0 /\ lastShow' = NoShow
            /\ UNCHANGED crashAt
       ELSE /\ Crash("pv_remove_audio")
            /\ UNCHANGED <<fs, fps, frame_time, frame_count, term_width,
                           term_height, i, now, lastShow>>
    /\ UNCHANGED <<envVars, audio, startCaptures, presented, saveVars, glyphVars>>

\* Lines 55-59, in the daemon thread: ffplay ends, with an error, or cannot be
\* executed. It plays only a file that is there. The thread dies with the process.
AudioThread ==
    /\ audio = "running"
    /\ pc \notin {"exit0", "exit1", "crashed"}
    /\ \E out \in Outcomes :
         /\ out = "ok" => TEMP_AUDIO \in fs
         /\ audio' = out
    /\ UNCHANGED <<pc, crashAt, envVars, fs, playVars, saveVars, glyphVars>>

\* -------------------------------------------------------- save_as_video

\* Lines 99-112: the prompt is answered; unless the stripped, lower-cased answer
\* is "y" the function returns; else the terminal size is sampled, the decoder
\* opened and the rate derived.
SavePrompt ==
    /\ pc = "prompt"
    /\ \E answer \in Answers, terminal \in TermSizes :
         LET choice == Lower(Strip(answer))
             size == get_terminal_resolution(terminal)
         IN /\ rawAnswer' = answer
            /\ IF Declines(choice)
               THEN /\ pc' = "exit0"
                    /\ UNCHANGED sv
               ELSE /\ sv' = [sv EXCEPT !.width = size.width,
                                        !.height = size.height,
                                        !.fps = EffectiveFps(fpsReported),
                                        !.frame_count = Len(frameOk),
                                        !.opens = @ + 1]
                    /\ pc' = IF Len(frameOk) = 0 THEN "sv_write" ELSE "sv_loop"
    /\ UNCHANGED <<crashAt, envVars, fs, audio, playVars, canvases, encoder, glyphVars>>

\* Lines 116-118: cap.read() reports no frame; the loop is left.
SaveReadFail ==
    /\ pc = "sv_loop"
    /\ ~frameOk[sv.n + 1]
    /\ pc' = "sv_write"
    /\ UNCHANGED <<crashAt, envVars, fs, audio, playVars, saveVars, glyphVars>>

\* Lines 116-130, one iteration: the frame is resized to the sampled size and
\* its colours are kept as a canvas.
SaveRender ==
    /\ pc = "sv_loop"
    /\ frameOk[sv.n + 1]
    /\ \E canvas \in {cv2_resize(src, sv.width, sv.height - Margin) : src \in SrcSizes} :
            /\ canvas.ok
            /\ canvases' = Append(canvases,
                                  [index |-> sv.n, cols |-> canvas.cols, rows |-> canvas.rows])
    /\ sv' = [sv EXCEPT !.n = @ + 1]
    /\ pc' = IF sv.n + 1 = sv.frame_count THEN "sv_write" ELSE "sv_loop"
    /\ UNCHANGED <<crashAt, envVars, fs, audio, playVars, rawAnswer, encoder, glyphVars>>

\* Line 119: cv2.resize raises; nothing catches it.
SaveRenderRaise ==
    /\ pc = "sv_loop"
    /\ frameOk[sv.n + 1]
    /\ \E src \in SrcSizes : ~cv2_resize(src, sv.width, sv.height - Margin).ok
    /\ Crash("sv_render")
    /\ UNCHANGED <<envVars, fs, audio, playVars, saveVars, glyphVars>>

\* Lines 131-136: the directory is made and one image written per canvas.
SaveWriteFrames ==
    /\ pc = "sv_write"
    /\ fs' = fs \cup {TEMP_FRAMES_DIR}
    /\ sv' = [sv EXCEPT !.images = Len(canvases), !.writes = @ + 1 + Len(canvases)]
    /\ pc' = "sv_audio"
    /\ UNCHANGED <<crashAt, envVars, audio, playVars, rawAnswer, canvases, encoder, glyphVars>>

\* Line 138: extract_audio(original_path, "temp_audio_output.aac")
SaveExtractAudio ==
    /\ pc = "sv_audio"
    /\ \E out \in Outcomes :
         IF out = "raise"
         THEN /\ Crash("sv_extract_audio")
              /\ UNCHANGED <<fs, sv>>
         ELSE /\ fs' = IF out = "ok" THEN fs \cup {TEMP_AUDIO_OUTPUT} ELSE fs
              /\ sv' = [sv EXCEPT !.writes = IF out = "ok" THEN @ + 1 ELSE @]
              /\ pc' = "sv_encode"
              /\ UNCHANGED crashAt
    /\ UNCHANGED <<envVars, audio, playVars, rawAnswer, canvases, encoder, glyphVars>>

\* Lines 140-152: the encoder is run at rate str(fps); it cannot succeed
\* without its audio input.
SaveEncode ==
    /\ pc = "sv_encode"
    /\ encoder' = [calls |-> encoder.calls + 1, rate |-> sv.fps]
    /\ \E out \in Outcomes :
         /\ out = "ok" => TEMP_AUDIO_OUTPUT \in fs
         /\ IF out = "raise"
            THEN /\ Crash("sv_encode")
                 /\ UNCHANGED fs
            ELSE /\ fs' = IF out = "ok" THEN fs \cup {OUTPUT_FILE} ELSE fs
                 /\ pc' = "sv_cleanup"
                 /\ UNCHANGED crashAt
    /\ UNCHANGED <<envVars, audio, playVars, rawAnswer, sv, canvases, glyphVars>>

\* Lines 154-156: shutil.rmtree(temp_frames_dir); os.remove(temp_audio), which
\* raises FileNotFoundError when the file is not there.
SaveCleanup ==
    /\ pc = "sv_cleanup"
    /\ sv' = [sv EXCEPT !.images = 0]
    /\ IF TEMP_AUDIO_OUTPUT \in fs
       THEN /\ fs' = fs \ {TEMP_FRAMES_DIR, TEMP_AUDIO_OUTPUT}
            /\ pc' = "exit0"
            /\ UNCHANGED crashAt
       ELSE /\ fs' = fs \ {TEMP_FRAMES_DIR}
            /\ Crash("sv_remove_audio")
    /\ UNCHANGED <<envVars, audio, playVars, rawAnswer, canvases, encoder, glyphVars>>

\* ------------------------------------------------------- specification

Next ==
    \/ MainCheck
    \/ PlayStart
    \/ PlayReadFail
    \/ PlayPresent
    \/ PlayRenderRaise
    \/ PlayEnd
    \/ AudioThread
    \/ SavePrompt
    \/ SaveReadFail
    \/ SaveRender
    \/ SaveRenderRaise
    \/ SaveWriteFrames
    \/ SaveExtractAudio
    \/ SaveEncode
    \/ SaveCleanup

Spec == Init /\ [][Next]_vars

\* ------------------------------------------------------- the glyph mapper

\* Line 32, ASCII mode: the character of one pixel; an index outside the ramp
\* is Python's IndexError.
MapAscii ==
    /\ pc = "glyph"
    /\ use_ascii
    /\ glyph.state = "none"
    /\ LET idx == GlyphIndex(brightness)
       IN glyph' = IF idx + 1 \in DOMAIN ascii_chars
                   THEN [state |-> "mapped", index |-> idx, char |-> ascii_chars[idx + 1]]
                   ELSE [state |-> "IndexError", index |-> idx, char |-> ""]
    /\ UNCHANGED <<pc, crashAt, envVars, fs, audio, playVars, saveVars, brightness>>

\* Line 43, block mode: always the full block, brightness unused.
MapBlock ==
    /\ pc = "glyph"
    /\ ~use_ascii
    /\ glyph.state = "none"
    /\ glyph' = [state |-> "mapped", index |-> 0, char |-> "block"]
    /\ UNCHANGED <<pc, crashAt, envVars, fs, audio, playVars, saveVars, brightness>>

\* One pixel of a resized frame: any 8-bit brightness, either mode.
InitGlyph ==
    /\ pc = "glyph"
    /\ Idle
    /\ frameOk = <<>>
    /\ fpsReported = Num(DefaultFps)
    /\ use_ascii \in BOOLEAN
    /\ brightness \in 0..MaxBrightness
    /\ glyph = NoGlyph

NextGlyph == MapAscii \/ MapBlock

SpecGlyph == InitGlyph /\ [][NextGlyph]_vars

\* --------------------------------------------------------------- claims

SavePcs == {"sv_loop", "sv_write", "sv_audio", "sv_encode", "sv_cleanup"}
SaveCrashes == {"sv_render", "sv_extract_audio", "sv_encode", "sv_remove_audio"}

\* play_video has returned to __main__.
PlayReturned == pc \in {"prompt", "exit0"} \cup SavePcs \/ crashAt \in SaveCrashes

\* save_as_video has left its rendering loop.
SaveRendered ==
    pc \in {"sv_write", "sv_audio", "sv_encode", "sv_cleanup"}
    \/ crashAt \in {"sv_extract_audio", "sv_encode", "sv_remove_audio"}

PresentedIndices == [k \in 1..Len(presented) |-> presented[k].index]

\* The indices of the frames the decoder can deliver, in increasing order.
ReadableIndices ==
    SelectSeq([k \in 1..Len(frameOk) |-> k - 1], LAMBDA x : frameOk[x + 1])

\* save_as_video has had no effect at all.
SaveUntouched ==
    /\ pc \notin SavePcs
    /\ crashAt \notin SaveCrashes
    /\ sv = NoSave
    /\ canvases = <<>>
    /\ encoder.calls = 0
    /\ fs \cap {TEMP_FRAMES_DIR, TEMP_AUDIO_OUTPUT, OUTPUT_FILE} = {}

\* C1: once play_video has returned, the frames presented are exactly the
\* frames the decoder delivers among 0, 1, ..., count-1, in increasing order,
\* each once, none skipped.
C1_AllFramesPresentedInOrder ==
    PlayReturned => PresentedIndices = ReadableIndices

\* C2: start_time is captured once, before the first frame; frame i is shown
\* after a sleep of exactly i * frame_time - elapsed when that is positive and
\* at once when it is not, so never before i * frame_time; and the frame after
\* a late frame is the next index, none being skipped to catch up.
C2_ClockSchedule ==
    /\ startCaptures \in {0, 1}
    /\ pc \in {"pv_loop", "pv_end"} => startCaptures = 1
    /\ presented # <<>> => startCaptures = 1
    /\ PresentedIndices = [k \in 1..Len(presented) |-> k - 1]
    /\ lastShow.index >= 0 =>
         LET target == lastShow.index * frame_time
             d == target - lastShow.checked
         IN /\ lastShow.index = Len(presented) - 1
            /\ i = lastShow.index + 1
            /\ d > 0 => lastShow.slept = d /\ lastShow.at >= lastShow.checked + d
            /\ d <= 0 => lastShow.slept = 0 /\ lastShow.at = lastShow.checked
            /\ lastShow.at >= target

\* C2's case: the third frame arrived early and was shown after a sleep.
C2_Witness_SleptBeforeFrame ==
    lastShow.index = 2 /\ lastShow.slept > 0 /\ Len(presented) = 3

\* C3: a failure of the audio extraction or of the audio player never stops
\* play_video: it raises neither where the audio is extracted nor where the
\* audio asset is removed.
C3_AudioFailureIsSilent ==
    crashAt \notin {"pv_extract_audio", "pv_remove_audio"}

\* C4: once play_video has returned or raised its audio asset is gone, and
\* once save_as_video has returned or raised the frame directory and its audio
\* asset are gone.
C4_TempResourcesReleased ==
    /\ (PlayReturned \/ pc = "crashed") => TEMP_AUDIO \notin fs
    /\ pc \in {"exit0", "crashed"} =>
         fs \cap {TEMP_FRAMES_DIR, TEMP_AUDIO_OUTPUT} = {}

\* C5, as stated: any answer other than "y" leaves save_as_video without effect.
C5_AnswerOtherThanYIsNoOp ==
    rawAnswer # <<"y">> => SaveUntouched

\* C5, amended: any answer that is not "y" once stripped and lower-cased leaves
\* save_as_video without effect (no directory, no image, no audio asset, no
\* encoder run, no decoder opened), and the recording path is entered only
\* after play_video has returned.
C5_DeclinedAnswerIsNoOp ==
    /\ Lower(Strip(rawAnswer)) # <<"y">> => SaveUntouched
    /\ ~SaveUntouched =>
         /\ startCaptures = 1
         /\ TEMP_AUDIO \notin fs
         /\ lastShow = NoShow

\* C5's case: the stream was played and the user answered something else than y.
C5_Witness_Declined ==
    /\ pc = "exit0"
    /\ presented # <<>>
    /\ rawAnswer # <<>>
    /\ Lower(Strip(rawAnswer)) # <<"y">>

\* C6: a reported rate that is 0, negative, NaN or not finite gives the
\* interval 1/30 and the encoder the rate 30; any other rate fps gives 1/fps.
C6_InvalidRateFallsBack ==
    LET invalid == fpsReported.kind # "num" \/ fpsReported.v <= 0
        rate == IF invalid THEN Num(DefaultFps) ELSE fpsReported
    IN /\ pc \in {"pv_loop", "pv_end"} => frame_time = TicksPerSec \div rate.v
       /\ encoder.calls > 0 => encoder.rate = rate

\* C7: for every brightness 0..255 the glyph index lies in 0..N-1 for the ramp
\* of N = 10 characters, so that no lookup fails, and brightness 0 gives ramp[0],
\* the space.
C7_GlyphIndexInRamp ==
    /\ Len(ascii_chars) = 10
    /\ glyph.state # "IndexError"
    /\ (glyph.state = "mapped" /\ use_ascii) =>
         /\ 0 <= glyph.index /\ glyph.index < Len(ascii_chars)
         /\ glyph.char = ascii_chars[glyph.index + 1]
         /\ brightness = 0 => glyph.index = 0 /\ glyph.char = " "

\* C7's case: the brightest pixel has been mapped.
C7_Witness_BrightestMapped ==
    glyph.state = "mapped" /\ use_ascii /\ brightness = MaxBrightness

\* C8: for every terminal of at least one column and one line the rasterizer
\* raises nothing and gives a grid of term_width columns and term_height - 2
\* rows, at least one of each.
C8_RasterizerTotal ==
    /\ crashAt \notin {"pv_render", "sv_render"}
    /\ \A k \in 1..Len(presented) : presented[k].cols >= 1 /\ presented[k].rows >= 1
    /\ \A k \in 1..Len(canvases) : canvases[k].cols >= 1 /\ canvases[k].rows >= 1

\* C9: a frame that cannot be read is the only one left out: once a loop is
\* over every readable frame of the stream has been presented (play_video) or
\* drawn (save_as_video).
C9_OnlyBadFrameSkipped ==
    /\ PlayReturned =>
         \A k \in 1..Len(frameOk) :
             frameOk[k] => \E j \in 1..Len(presented) : presented[j].index = k - 1
    /\ SaveRendered =>
         \A k \in 1..Len(frameOk) :
             frameOk[k] => \E j \in 1..Len(canvases) : canvases[j].index = k - 1

\* C10: every grid presented has the size sampled when the stream started, and
\* every canvas of save_as_video has the size of the grids presented.
C10_CanvasMatchesGrid ==
    /\ \A j, k \in 1..Len(presented) :
           presented[j].cols = presented[k].cols /\ presented[j].rows = presented[k].rows
    /\ \A j \in 1..Len(presented) : \A k \in 1..Len(canvases) :
           canvases[k].cols = presented[j].cols /\ canvases[k].rows = presented[j].rows

=============================================================================
